---- MODULE Spec2Model ----
(***************************************************************************)
(* Model of the C helpers of the ETW consumer (session.c / session.h):     *)
(* property length and count resolution over a TRACE_EVENT_INFO schema,    *)
(* the composition of the 64-bit event time stamp, and the in-place        *)
(* clean-up of an EVENT_MAP_INFO value map.                                *)
(*                                                                         *)
(* Numbers wider than 31 bits are kept as little-endian sequences of       *)
(* 16-bit words, so that 32- and 64-bit wrap-around is computed as the     *)
(* machine computes it.                                                    *)
(***************************************************************************)
EXTENDS Integers, Sequences, FiniteSets, TLC

VARIABLES
    info,            \* PTRACE_EVENT_INFO: EventPropertyInfoArray, indexed from 0
    propData,        \* the event's payload: bytes TDH returns for each property
    call,            \* the helper called last and its index argument
    status,          \* DWORD status returned by the last call, if GetPropertyLength
    PropertyLength,  \* the caller's *PropertyLength object
    ret,             \* value returned by the last call, if another helper
    tdh,             \* what the last call asked of TdhGetPropertySize/TdhGetProperty
    EventHeader,     \* EVENT_HEADER: TimeStamp halves, KernelTime, UserTime
    pMapInfo,        \* PEVENT_MAP_INFO: EntryCount, MapEntryArray, the buffer's words
    writes           \* the stores of L'\0' made by RemoveTrailingSpace: entry and byte offset

vars == <<info, propData, call, status, PropertyLength, ret, tdh, EventHeader, pMapInfo, writes>>

----------------------------------------------------------------------------
(* Bounds of the model. *)

\* Number of properties of the schema (EventPropertyInfoArray[0..NumProps-1]).
NumProps == 2

\* Largest value of the count / countPropertyIndex field.
MaxCount == 2

----------------------------------------------------------------------------
(* The schema: EVENT_PROPERTY_INFO as session.c reads it. *)

PropIndex == 0 .. (NumProps - 1)

\* The flag bits the code tests with (Flags & X) == X, kept as a set of names.
PropertyFlags == {"PropertyStruct", "PropertyParamLength", "PropertyParamCount"}

\* nonStructType.InType values: 1 and 2 are the string types, 14 is binary,
\* 8 stands for every other type.
InTypes == {1, 2, 8, 14}

\* nonStructType.OutType values: 24 is IPv6, 0 stands for every other type.
OutTypes == {0, 24}

\* sizeof(IN6_ADDR)
IN6_ADDR_SIZE == 16

\* One entry of EventPropertyInfoArray.  `length' is the storage the code reads
\* both as .length and as .lengthPropertyIndex, `count' the storage it reads as
\* .count (a countPropertyIndex when PropertyParamCount is set); InType/OutType
\* are read by GetPropertyLength whether or not PropertyStruct is set.
EVENT_PROPERTY_INFO ==
    [Flags : SUBSET PropertyFlags, InType : InTypes, OutType : OutTypes,
     count : 0 .. MaxCount, length : 0 .. NumProps]

\* A fixed-size scalar property, the kind a length or count refers to.
ScalarProperty ==
    [Flags |-> {}, InType |-> 8, OutType |-> 0, count |-> 1, length |-> 4]

\* The schemas handed to the helpers: one property of any shape among scalars.
Schemas ==
    { [k \in PropIndex |-> IF k = at THEN p ELSE ScalarProperty] :
        at \in PropIndex, p \in EVENT_PROPERTY_INFO }

\* Payload of one property as TDH returns it: a UINT16 or a UINT32, little-endian.
PropertyBytes == { <<255, 255>>, <<7, 1, 2, 0>> }

----------------------------------------------------------------------------
(* TdhGetPropertySize / TdhGetProperty: external calls.  Their status is an  *)
(* input; on success they act on the property the descriptor's name denotes. *)

TdhStatus == {"ERROR_SUCCESS", "ERROR_NOT_FOUND"}

\* The properties DataDescriptor.PropertyName can denote when it is computed
\* from EventPropertyInfoArray[j].NameOffset: property j itself, or, when j lies
\* outside the array (an out-of-bounds read), any property or none.
PropertyNameOf(j) ==
    IF j \in PropIndex THEN {{j}} ELSE {{}} \cup {{k} : k \in PropIndex}

\* TdhGetPropertySize: *PropertySize is set on success and left alone otherwise.
TdhGetPropertySize(name, st, PropertySize) ==
    IF st = "ERROR_SUCCESS" /\ name # {}
    THEN Len(propData[CHOOSE k \in name : TRUE])
    ELSE PropertySize

\* TdhGetProperty: on success the first BufferSize bytes of the buffer receive
\* the property's bytes; the buffer is left alone otherwise.
TdhGetProperty(name, st, BufferSize, Buffer) ==
    IF st = "ERROR_SUCCESS" /\ name # {}
    THEN LET bytes == propData[CHOOSE k \in name : TRUE]
         IN  [b \in 1 .. Len(Buffer) |->
                 IF b <= BufferSize /\ b <= Len(bytes) THEN bytes[b] ELSE Buffer[b]]
    ELSE Buffer

\* Value of a little-endian byte sequence (the DWORD Length read back, and the
\* integer a UINT16 / UINT32 property decodes to).
RECURSIVE LittleEndian(_)
LittleEndian(bytes) ==
    IF bytes = <<>> THEN 0 ELSE Head(bytes) + 256 * LittleEndian(Tail(bytes))

----------------------------------------------------------------------------
(* GetPropertyLength *)

\* ParamLength reading the referenced value as a USHORT only.
ParamLength_ReadsUshort(p, name, sizeSt, readSt) ==
    LET Length == TdhGetProperty(name, readSt, 2, <<0, 0, 0, 0>>)
    IN  [status |-> readSt, written |-> TRUE, PropertyLength |-> LittleEndian(Length)]

\* The PropertyParamLength branch: the length is the value of property
\* lengthPropertyIndex, fetched through TDH into a zeroed DWORD.  The status of
\* the size query is overwritten by the status of the read.
ParamLength(p, name, sizeSt, readSt) ==
    LET PropertySize == TdhGetPropertySize(name, sizeSt, 0)
        Length       == TdhGetProperty(name, readSt, PropertySize, <<0, 0, 0, 0>>)
    IN  [status |-> readSt, written |-> TRUE, PropertyLength |-> LittleEndian(Length)]

\* FixedLength without the IPAddrV6 case.
FixedLength_NoIPv6(p) ==
    IF p.length > 0
    THEN [status |-> "ERROR_SUCCESS", written |-> TRUE, PropertyLength |-> p.length]
    ELSE IF 1 = p.InType \/ 2 = p.InType \/ "PropertyStruct" \in p.Flags
    THEN [status |-> "ERROR_SUCCESS", written |-> TRUE, PropertyLength |-> p.length]
    ELSE [status |-> "ERROR_EVT_INVALID_EVENT_DATA", written |-> FALSE, PropertyLength |-> 0]

\* FixedLength taking every zero length for a variable-length field.
FixedLength_ZeroIsVariable(p) ==
    IF p.length > 0
    THEN [status |-> "ERROR_SUCCESS", written |-> TRUE, PropertyLength |-> p.length]
    ELSE IF 14 = p.InType /\ 24 = p.OutType
    THEN [status |-> "ERROR_SUCCESS", written |-> TRUE, PropertyLength |-> IN6_ADDR_SIZE]
    ELSE [status |-> "ERROR_SUCCESS", written |-> TRUE, PropertyLength |-> p.length]

\* The branch without PropertyParamLength.
FixedLength(p) ==
    IF p.length > 0
    THEN [status |-> "ERROR_SUCCESS", written |-> TRUE, PropertyLength |-> p.length]
    ELSE IF 14 = p.InType /\ 24 = p.OutType
    THEN [status |-> "ERROR_SUCCESS", written |-> TRUE, PropertyLength |-> IN6_ADDR_SIZE]
    ELSE IF 1 = p.InType \/ 2 = p.InType \/ "PropertyStruct" \in p.Flags
    THEN [status |-> "ERROR_SUCCESS", written |-> TRUE, PropertyLength |-> p.length]
    ELSE [status |-> "ERROR_EVT_INVALID_EVENT_DATA", written |-> FALSE, PropertyLength |-> 0]

NoTdh == [called |-> FALSE, name |-> {}, sizeSt |-> "", readSt |-> ""]

GetPropertyLength(i) ==
    LET p == info[i] IN
    /\ IF "PropertyParamLength" \in p.Flags
       THEN \E name \in PropertyNameOf(p.length), sizeSt \in TdhStatus, readSt \in TdhStatus :
                LET r == ParamLength(p, name, sizeSt, readSt) IN
                /\ status' = r.status
                /\ PropertyLength' = r.PropertyLength
                /\ tdh' = [called |-> TRUE, name |-> name, sizeSt |-> sizeSt, readSt |-> readSt]
       ELSE LET r == FixedLength(p) IN
            /\ status' = r.status
            /\ PropertyLength' = IF r.written THEN r.PropertyLength ELSE PropertyLength
            /\ tdh' = NoTdh
    /\ call' = [fn |-> "GetPropertyLength", i |-> i]
    /\ ret' = 0
    /\ UNCHANGED <<info, propData, EventHeader, pMapInfo, writes>>

----------------------------------------------------------------------------
(* GetPropertyCount *)

PropertyCount(p) == p.count

GetPropertyCount(i) ==
    /\ ret' = PropertyCount(info[i])
    /\ call' = [fn |-> "GetPropertyCount", i |-> i]
    /\ tdh' = NoTdh
    /\ status' = "ERROR_SUCCESS"
    /\ UNCHANGED <<info, propData, PropertyLength, EventHeader, pMapInfo, writes>>

----------------------------------------------------------------------------
(* Machine integers as little-endian sequences of 16-bit words. *)

\* The 16-bit words the time stamp halves are drawn from.
Words == {0, 1, 32768, 65535}

\* Bitwise OR of two non-negative integers.
RECURSIVE BitOr(_, _)
BitOr(a, b) ==
    IF a = 0 THEN b
    ELSE IF b = 0 THEN a
    ELSE (IF a % 2 = 1 \/ b % 2 = 1 THEN 1 ELSE 0) + 2 * BitOr(a \div 2, b \div 2)

\* Conversion of a signed 32-bit LONG to a 64-bit integer: the sign is extended.
SignExtend64(x) ==
    LET s == IF x[2] >= 32768 THEN 65535 ELSE 0 IN <<x[1], x[2], s, s>>

\* Conversion of an unsigned 32-bit DWORD to a 64-bit integer.
ZeroExtend64(x) == <<x[1], x[2], 0, 0>>

\* x << 32 on a 64-bit integer: the upper half is shifted out.
ShiftLeft32(x) == <<0, 0, x[1], x[2]>>

\* x | y on 64-bit integers.
Or64(x, y) == [k \in 1 .. 4 |-> BitOr(x[k], y[k])]

\* A small non-negative integer as n words.
ToWords(v, n) == [k \in 1 .. n |-> IF k = 1 THEN v % 65536 ELSE IF k = 2 THEN v \div 65536 ELSE 0]

\* x - 1 on an unsigned integer of Len(x) words, wrapping at zero.
RECURSIVE MinusOne(_)
MinusOne(x) ==
    IF x = <<>> THEN <<>>
    ELSE IF Head(x) > 0 THEN <<Head(x) - 1>> \o Tail(x)
    ELSE <<65535>> \o MinusOne(Tail(x))

\* x * 2 on an unsigned integer of Len(x) words; the carry out of the top is lost.
RECURSIVE TimesTwo(_, _)
TimesTwo(x, carry) ==
    IF x = <<>> THEN <<>>
    ELSE LET v == 2 * Head(x) + carry
         IN  <<v % 65536>> \o TimesTwo(Tail(x), v \div 65536)

\* x + y on unsigned integers of the same width, modulo 2^width.
RECURSIVE Plus(_, _, _)
Plus(x, y, carry) ==
    IF x = <<>> THEN <<>>
    ELSE LET v == Head(x) + Head(y) + carry
         IN  <<v % 65536>> \o Plus(Tail(x), Tail(y), v \div 65536)

----------------------------------------------------------------------------
(* GetTimeStamp *)

\* GetTimeStamp with LowPart taken for a signed LONG.
TimeStamp_SignedLowPart(header) ==
    Or64(ShiftLeft32(SignExtend64(header.HighPart)), SignExtend64(header.LowPart))

\* time = HighPart; time = (time << 32) | LowPart; HighPart is a LONG, LowPart
\* a DWORD, time a ULONGLONG.
TimeStamp(header) ==
    Or64(ShiftLeft32(SignExtend64(header.HighPart)), ZeroExtend64(header.LowPart))

GetTimeStamp ==
    /\ ret' = TimeStamp(EventHeader)
    /\ call' = [fn |-> "GetTimeStamp", i |-> 0]
    /\ UNCHANGED <<info, propData, status, PropertyLength, tdh, EventHeader, pMapInfo, writes>>

----------------------------------------------------------------------------
(* RemoveTrailingSpace *)

\* Longest entry string of a map, in characters.
MaxStrLen == 3

\* Largest EntryCount of a map.
MaxEntries == 2

\* The characters of the entry strings: a space and a letter.
Chars == {32, 65}

Strings == UNION { [1 .. n -> Chars] : n \in 0 .. MaxStrLen }

\* Byte offset of the end of MapEntryArray in a map of n entries: the fixed
\* fields of EVENT_MAP_INFO and n entries of two ULONGs.
EntriesEnd(n) == 16 + 8 * n

\* The strings of a map laid out one after the other, each with its terminator.
RECURSIVE Packed(_)
Packed(strs) ==
    IF strs = <<>> THEN <<>> ELSE Head(strs) \o <<0>> \o Packed(Tail(strs))

\* An EVENT_MAP_INFO block holding the strings strs: entry k's OutputOffset is
\* the byte offset of its string from the start of the block; `words' is the
\* string area, word w at byte offset EntriesEnd(EntryCount) + 2 * (w - 1).
MapInfoOf(strs) ==
    [EntryCount |-> Len(strs),
     MapEntryArray |->
        [k \in 0 .. (Len(strs) - 1) |->
            [OutputOffset |-> EntriesEnd(Len(strs)) + 2 * Len(Packed(SubSeq(strs, 1, k)))]],
     words |-> Packed(strs)]

\* Index in `words' of the wide character at a byte offset (as 32-bit words),
\* 0 when the offset lies outside the string area.
WordAt(m, offset) ==
    LET byte == offset[1] - EntriesEnd(m.EntryCount) IN
    IF offset[2] = 0 /\ byte >= 0 /\ byte % 2 = 0 /\ (byte \div 2) + 1 <= Len(m.words)
    THEN (byte \div 2) + 1
    ELSE 0

\* wcslen of the string that starts at word w of the area.
RECURSIVE wcslen(_, _)
wcslen(words, w) ==
    IF w > Len(words) \/ words[w] = 0 THEN 0 ELSE 1 + wcslen(words, w + 1)

\* The string of entry k.
EntryString(m, k) ==
    LET w == WordAt(m, ToWords(m.MapEntryArray[k].OutputOffset, 2))
    IN  SubSeq(m.words, w, w + wcslen(m.words, w) - 1)

\* ByteLength computed as wcslen * 2, without the - 1.
ByteLength_NoMinusOne(len) == SubSeq(TimesTwo(ToWords(len, 4), 0), 1, 2)

\* ByteLength = (wcslen(...) - 1) * 2: computed in size_t, stored in a DWORD.
ByteLength(len) == SubSeq(TimesTwo(MinusOne(ToWords(len, 4)), 0), 1, 2)

\* Byte offset (32 bits) the terminator of entry k is stored at.
StoreOffset(m, k) ==
    LET w == WordAt(m, ToWords(m.MapEntryArray[k].OutputOffset, 2))
    IN  Plus(ToWords(m.MapEntryArray[k].OutputOffset, 2), ByteLength(wcslen(m.words, w)), 0)

\* One iteration of the loop: L'\0' is stored at StoreOffset.  A store that
\* lands outside the string area leaves the area as it is.
Store(m, k) ==
    LET w == WordAt(m, StoreOffset(m, k))
    IN  IF w = 0 THEN m ELSE [m EXCEPT !.words[w] = 0]

\* The loop from entry k on; log collects the store made for each entry.
RECURSIVE Loop(_, _, _)
Loop(m, k, log) ==
    IF k >= m.EntryCount THEN [map |-> m, log |-> log]
    ELSE Loop(Store(m, k), k + 1, Append(log, [entry |-> k, offset |-> StoreOffset(m, k)]))

RemoveTrailingSpace ==
    LET r == Loop(pMapInfo, 0, <<>>) IN
    /\ pMapInfo' = r.map
    /\ writes' = r.log
    /\ call' = [fn |-> "RemoveTrailingSpace", i |-> 0]
    /\ UNCHANGED <<info, propData, status, PropertyLength, ret, tdh, EventHeader>>

----------------------------------------------------------------------------
NoHeader == [HighPart |-> <<0, 0>>, LowPart |-> <<0, 0>>]

NoMap == [EntryCount |-> 0, MapEntryArray |-> <<>>, words |-> <<>>]

Init ==
    /\ info \in Schemas
    /\ propData \in [PropIndex -> PropertyBytes]
    /\ call = [fn |-> "", i |-> 0]
    /\ status = "ERROR_SUCCESS"
    /\ PropertyLength = 0
    /\ ret = 0
    /\ tdh = NoTdh
    /\ EventHeader = NoHeader
    /\ pMapInfo = NoMap
    /\ writes = <<>>

Next ==
    \/ \E i \in PropIndex : GetPropertyLength(i)
    \/ \E i \in PropIndex : GetPropertyCount(i)

Spec == Init /\ [][Next]_vars

\* The event header decoder alone: every time stamp over Words.
InitTime ==
    /\ info = [k \in PropIndex |-> ScalarProperty]
    /\ propData = [k \in PropIndex |-> <<255, 255>>]
    /\ call = [fn |-> "", i |-> 0]
    /\ status = "ERROR_SUCCESS"
    /\ PropertyLength = 0
    /\ ret = <<0, 0, 0, 0>>
    /\ tdh = NoTdh
    /\ EventHeader \in [HighPart : Words \X Words, LowPart : Words \X Words]
    /\ pMapInfo = NoMap
    /\ writes = <<>>

NextTime == GetTimeStamp

SpecTime == InitTime /\ [][NextTime]_vars

\* The map normalizer alone: every map of up to MaxEntries strings.
InitMap ==
    /\ info = [k \in PropIndex |-> ScalarProperty]
    /\ propData = [k \in PropIndex |-> <<255, 255>>]
    /\ call = [fn |-> "", i |-> 0]
    /\ status = "ERROR_SUCCESS"
    /\ PropertyLength = 0
    /\ ret = 0
    /\ tdh = NoTdh
    /\ EventHeader = NoHeader
    /\ \E n \in 0 .. MaxEntries : \E strs \in [1 .. n -> Strings] : pMapInfo = MapInfoOf(strs)
    /\ writes = <<>>

NextMap == RemoveTrailingSpace

SpecMap == InitMap /\ [][NextMap]_vars

----------------------------------------------------------------------------
(* Properties of length and count resolution, checked under Spec. *)

\* The property the last call was about.
Prop == info[call.i]

AfterGetPropertyLength == call.fn = "GetPropertyLength"

AfterFixedLength == AfterGetPropertyLength /\ "PropertyParamLength" \notin Prop.Flags

AfterParamLength == AfterGetPropertyLength /\ "PropertyParamLength" \in Prop.Flags

IsIPv6(p) == p.InType = 14 /\ p.OutType = 24

IsString(p) == p.InType = 1 \/ p.InType = 2

IsStruct(p) == "PropertyStruct" \in p.Flags

\* C1 as stated: for inType 14 / outType 24 the resolved length is 16 with a
\* success status, for every declared fixed length, zero or not.
C1_IPv6AlwaysSixteen ==
    (AfterFixedLength /\ IsIPv6(Prop))
        => (status = "ERROR_SUCCESS" /\ PropertyLength = IN6_ADDR_SIZE)

\* C1 amended: for inType 14 / outType 24 on a property without
\* PropertyParamLength, the call succeeds; the length is 16 when the declared
\* length is zero and the declared length itself when it is not.
C1_IPv6SixteenWhenZero ==
    (AfterFixedLength /\ IsIPv6(Prop))
        => /\ status = "ERROR_SUCCESS"
           /\ PropertyLength = IF Prop.length = 0 THEN IN6_ADDR_SIZE ELSE Prop.length

C1_Witness ==
    /\ AfterFixedLength /\ IsIPv6(Prop) /\ ~IsStruct(Prop)
    /\ Prop.length = 0
    /\ status = "ERROR_SUCCESS" /\ PropertyLength = IN6_ADDR_SIZE

\* C2: when property i has PropertyParamLength and refers to an earlier property
\* j whose value TDH delivers, the resolved length is the integer property j
\* decodes to, whatever the other fields of property i are.
C2_ParamLengthIsReferencedValue ==
    (/\ AfterParamLength
     /\ Prop.length < call.i
     /\ tdh.sizeSt = "ERROR_SUCCESS" /\ tdh.readSt = "ERROR_SUCCESS")
        => /\ status = "ERROR_SUCCESS"
           /\ PropertyLength = LittleEndian(propData[Prop.length])

C2_Witness ==
    /\ AfterParamLength
    /\ Prop.length < call.i
    /\ tdh.sizeSt = "ERROR_SUCCESS" /\ tdh.readSt = "ERROR_SUCCESS"
    /\ Len(propData[Prop.length]) = 4
    /\ IsIPv6(Prop)
    /\ PropertyLength = LittleEndian(propData[Prop.length])

\* C3: a zero fixed length on a property without PropertyParamLength that is
\* not a string, not a struct and not the IPv6 case yields
\* ERROR_EVT_INVALID_EVENT_DATA, never success.
C3_UnexpectedZeroLength ==
    (/\ AfterFixedLength
     /\ Prop.length = 0
     /\ ~IsString(Prop) /\ ~IsStruct(Prop) /\ ~IsIPv6(Prop))
        => status = "ERROR_EVT_INVALID_EVENT_DATA"

C3_Witness ==
    /\ AfterFixedLength
    /\ Prop.length = 0
    /\ Prop.InType = 14 /\ Prop.OutType = 0 /\ ~IsStruct(Prop)
    /\ status = "ERROR_EVT_INVALID_EVENT_DATA"

\* C4: when lengthPropertyIndex is not strictly less than i, or lies outside
\* the schema, resolution is rejected: the status is an error and the
\* referenced property is never looked up.
C4_InvalidDependencyRejected ==
    (AfterParamLength /\ ~(Prop.length < call.i /\ Prop.length \in PropIndex))
        => (status # "ERROR_SUCCESS" /\ ~tdh.called)

\* C5: the count accessor returns the referenced property's decoded value when
\* PropertyParamCount is set (and refers to an earlier property), and the
\* schema's fixed count otherwise.
C5_CountIsResolved ==
    (call.fn = "GetPropertyCount")
        => /\ ("PropertyParamCount" \notin Prop.Flags) => ret = Prop.count
           /\ ("PropertyParamCount" \in Prop.Flags /\ Prop.count < call.i)
                  => ret = LittleEndian(propData[Prop.count])

\* C6: on the PropertyParamLength path, a failure of the size query or of the
\* value read yields a non-success status.
C6_NoErrorSwallowed ==
    (/\ AfterParamLength
     /\ (tdh.sizeSt # "ERROR_SUCCESS" \/ tdh.readSt # "ERROR_SUCCESS"))
        => status # "ERROR_SUCCESS"

\* C10: without PropertyParamLength, a zero fixed length on a string type or a
\* struct yields success with length 0, and a non-zero fixed length outside the
\* IPv6 case yields success with that length.
C10_VariableOrFixedLength ==
    /\ (AfterFixedLength /\ Prop.length = 0 /\ (IsString(Prop) \/ IsStruct(Prop)))
          => (status = "ERROR_SUCCESS" /\ PropertyLength = 0)
    /\ (AfterFixedLength /\ Prop.length # 0 /\ ~IsIPv6(Prop))
          => (status = "ERROR_SUCCESS" /\ PropertyLength = Prop.length)

----------------------------------------------------------------------------
(* Property of the time stamp, checked under SpecTime. *)

\* C7: the time stamp is the 64-bit value whose upper 32 bits are the bits of
\* HighPart and whose lower 32 bits are the bits of LowPart, that is
\* high * 2^32 + low: HighPart is not truncated and LowPart is not sign-extended.
C7_TimeStampComposition ==
    (call.fn = "GetTimeStamp")
        => ret = <<EventHeader.LowPart[1], EventHeader.LowPart[2],
                   EventHeader.HighPart[1], EventHeader.HighPart[2]>>

\* high = 0x00000001, low = 0xFFFFFFFF composes to 0x1FFFFFFFF.
C7_Witness ==
    /\ call.fn = "GetTimeStamp"
    /\ EventHeader.HighPart = <<1, 0>>
    /\ EventHeader.LowPart = <<65535, 65535>>
    /\ ret = <<65535, 65535, 1, 0>>

----------------------------------------------------------------------------
(* Properties of the map normalizer, checked under SpecMap. *)

Entries(m) == 0 .. (m.EntryCount - 1)

\* C8: a call drops exactly the last character of every entry string of
\* length n >= 1: afterwards the string is its first n - 1 characters.
C8_DropsOneTrailingCharacter ==
    [][ \A k \in Entries(pMapInfo) :
            Len(EntryString(pMapInfo, k)) >= 1
                => EntryString(pMapInfo', k)
                       = SubSeq(EntryString(pMapInfo, k), 1, Len(EntryString(pMapInfo, k)) - 1)
      ]_vars

\* An entry "A " that a call has cut to "A": the terminator was stored one
\* character into the string.
C8_Witness ==
    /\ call.fn = "RemoveTrailingSpace"
    /\ pMapInfo.EntryCount = 2
    /\ EntryString(pMapInfo, 1) = <<65>>
    /\ \E e \in DOMAIN writes :
          /\ writes[e].entry = 1
          /\ writes[e].offset = ToWords(pMapInfo.MapEntryArray[1].OutputOffset + 2, 2)

\* C9: for an entry whose string is empty the call stores nothing: no store at
\* an offset below or beyond the string, and the block is left as it was.
C9_EmptyEntryIsNoOp ==
    [][ \A k \in Entries(pMapInfo) :
            EntryString(pMapInfo, k) = <<>>
                => /\ \A e \in DOMAIN writes' : writes'[e].entry # k
                   /\ EntryString(pMapInfo', k) = <<>>
      ]_vars

====
